---- MODULE Spec2Model ----
(***************************************************************************)
(* A model of application.py: the DynamoNotes storage adapter (constructor *)
(* with key-schema discovery, create, get, list, update, delete) over a    *)
(* DynamoDB table, and the exit status main() gives each outcome.          *)
(*                                                                         *)
(* The backing table is modelled by the documented behaviour of the five   *)
(* boto3 Table calls the adapter issues: put_item replaces the item with   *)
(* the same primary key, get_item / delete_item address one item by its    *)
(* exact primary key, update_item applies SET assignments to the item and  *)
(* creates it when it is absent (no ConditionExpression is passed), scan   *)
(* returns the items (one page), optionally those whose attribute equals   *)
(* a value.  A call whose key does not fit the table's key schema, or has  *)
(* an empty key value, is rejected with ClientError; any call may also     *)
(* fail for transport reasons, and a failed call leaves the table as it    *)
(* was.                                                                    *)
(*                                                                         *)
(* Items are functions from attribute names to values.  Timestamps are the *)
(* number of whole seconds now_iso() formats; ISO-8601 strings of one      *)
(* offset order as these numbers do.                                       *)
(***************************************************************************)
EXTENDS Integers, FiniteSets, Sequences, TLC

VARIABLES
    boto3,      \* TRUE iff "import boto3" succeeded (lines 12-16)
    schema,     \* the table's real key schema: [hash, range], range = None if absent
    table,      \* the items stored in the DynamoDB table
    clock,      \* the wall clock, in ticks of 1/TicksPerSec second
    uuids,      \* how many identifiers uuid.uuid4() has produced
    explicit,   \* what the constructor was given: [key_name, sort_key_name, disc]
    store,      \* the DynamoNotes instance: [built, key_name, sort_key_name]
    last        \* the latest call and its outcome (see Call)

vars == <<boto3, schema, table, clock, uuids, explicit, store, last>>

\* ------------------------------------------------------------------ bounds
MaxClock == 2       \* the clock stops advancing after this many ticks
MaxUuid == 1        \* at most this many generated identifiers
MaxItems == 2       \* at most this many items in the table
TicksPerSec == 2    \* clock resolution finer than the second now_iso keeps

\* ------------------------------------------------------------ value domains
None == "None"                       \* Python's None
Ids == {"a"}                         \* identifiers a client chooses
Users == {"x", "y"}                  \* sort-key values (user ids)
Titles == {"t1", "t2"}
Contents == {"c1"}
KeyNames == {"id", "pk"}             \* partition key attribute names
SortNames == {"user_id"}             \* sort key attribute names
OtherSortNames == {"owner"}          \* a sort key name the table does not have
UuidPool == <<"u1", "u2", "u3", "u4">>     \* what uuid4 returns, in order

Schemas == [hash : KeyNames, range : SortNames \cup {None}]

\* Python truthiness of an Optional[str]: None and "" are falsy.
Truthy(s) == s # None /\ s # ""

\* lines 27-29: UTC time truncated to whole seconds.
now_iso(c) == c \div TicksPerSec

\* line 62: str(uuid.uuid4()), the n-th identifier generated.
uuid4(n) == UuidPool[n]

\* -------------------------------------------------------- the DynamoDB table
KeyAttrs(sch) == IF sch.range = None THEN {sch.hash} ELSE {sch.hash, sch.range}

\* The primary key of a stored item.
KeyOf(sch, item) == [a \in KeyAttrs(sch) |-> item[a]]

\* A Key argument fits the schema: exactly the key attributes, none empty.
ValidKey(sch, key) ==
    /\ DOMAIN key = KeyAttrs(sch)
    /\ \A a \in KeyAttrs(sch) : Truthy(key[a])

\* An Item argument carries every key attribute, none empty.
ValidItem(sch, item) ==
    /\ KeyAttrs(sch) \subseteq DOMAIN item
    /\ \A a \in KeyAttrs(sch) : Truthy(item[a])

\* The items of tbl a (partial or full) key dict addresses.
Matching(tbl, key) ==
    {i \in tbl : \A a \in DOMAIN key : a \in DOMAIN i /\ i[a] = key[a]}

\* Mutant of put_item: the item is added beside the one with the same key.
put_item_append(sch, tbl, item) == tbl \cup {item}

\* Table.put_item(Item=item): the item with the same key is replaced whole.
put_item(sch, tbl, item) ==
    {i \in tbl : KeyOf(sch, i) # KeyOf(sch, item)} \cup {item}

\* Table.get_item(Key=key): the set holding the item, or the empty set.
get_item(tbl, key) == Matching(tbl, key)

\* Table.delete_item(Key=key): no condition, absent keys are accepted.
delete_item(tbl, key) == tbl \ Matching(tbl, key)

\* Table.update_item(Key, "SET ...", ReturnValues="ALL_NEW"): the item after
\* the assignments; an absent item is created from the key and the values.
update_item_new(tbl, key, vals) ==
    IF Matching(tbl, key) = {}
    THEN vals @@ key
    ELSE vals @@ (CHOOSE i \in Matching(tbl, key) : TRUE)

update_item(tbl, key, vals) ==
    (tbl \ Matching(tbl, key)) \cup {update_item_new(tbl, key, vals)}

\* Table.scan(): every item.  Table.scan(FilterExpression=Attr(a).eq(v)).
scan(tbl) == tbl
scan_filter(tbl, a, v) == {i \in tbl : a \in DOMAIN i /\ i[a] = v}

\* ------------------------------------------------------ outcomes of a call
\* exc: the exception class raised ("none" when the call returns); why: the
\* raise site; kind/val: the value returned, val always a set of items;
\* remote: "none" when no request was sent to the table, else "ok" / "fail".
Return(kind, val, tbl) ==
    [exc |-> "none", why |-> "none", kind |-> kind, val |-> val,
     remote |-> "ok", table |-> tbl]

Raise(exc, why, remote, tbl) ==
    [exc |-> exc, why |-> why, kind |-> "none", val |-> {},
     remote |-> remote, table |-> tbl]

Empty == [a \in {} |-> None]

\* ------------------------------------------------- DynamoNotes.__init__
\* line 43: self.key_name = key_name or "id"
default_key_name(key_name) == IF Truthy(key_name) THEN key_name ELSE "id"

\* lines 52-53: a HASH entry sets key_name, whatever it was.
discover_key_name(cur, sch) == sch.hash

\* lines 54-55: a RANGE entry sets sort_key_name only when it is still falsy.
discover_sort_key_name(cur, sch) ==
    IF sch.range # None /\ ~Truthy(cur) THEN sch.range ELSE cur

\* lines 43-58: disc = "fail" when reading the key schema raised (swallowed).
resolve_names(key_name, sort_key_name, sch, disc) ==
    IF disc = "ok"
    THEN [key_name |-> discover_key_name(default_key_name(key_name), sch),
          sort_key_name |-> discover_sort_key_name(sort_key_name, sch)]
    ELSE [key_name |-> default_key_name(key_name),
          sort_key_name |-> sort_key_name]

NotBuilt == [built |-> FALSE, key_name |-> None, sort_key_name |-> None]

\* lines 37-58: the instance, or NotBuilt when StorageError was raised.
dynamo_init(b3, key_name, sort_key_name, sch, disc) ==
    IF ~b3 THEN NotBuilt
    ELSE [built |-> TRUE] @@ resolve_names(key_name, sort_key_name, sch, disc)

\* ------------------------------------------------------- key construction
\* lines 71-72: create refuses a falsy user_id on a sort-key table.
create_missing_sort_key(st, user_id) ==
    Truthy(st.sort_key_name) /\ ~Truthy(user_id)

\* lines 84-85, 119-120, 137-138: get/update/delete refuse only None.
key_missing_sort_key(st, user_id) ==
    Truthy(st.sort_key_name) /\ user_id = None

\* lines 87-89, 122-124, 140-142: the Key dict.
make_key(st, item_id, user_id) ==
    IF Truthy(st.sort_key_name)
    THEN (st.sort_key_name :> user_id) @@ (st.key_name :> item_id)
    ELSE (st.key_name :> item_id)

\* ----------------------------------------------------- DynamoNotes.create
\* line 62
create_id(item_id, n) == IF Truthy(item_id) THEN item_id ELSE uuid4(n + 1)

\* Mutant of create_item: title and content stored under each other's name.
create_item_swapped(st, ts, id, title, content, user_id) ==
    LET base == [title |-> content, content |-> title,
                 created_at |-> ts, updated_at |-> ts] @@ (st.key_name :> id)
    IN  IF Truthy(st.sort_key_name)
        THEN (st.sort_key_name :> user_id) @@ base
        ELSE base

\* lines 64-74
create_item(st, ts, id, title, content, user_id) ==
    LET base == [title |-> title, content |-> content,
                 created_at |-> ts, updated_at |-> ts] @@ (st.key_name :> id)
    IN  IF Truthy(st.sort_key_name)
        THEN (st.sort_key_name :> user_id) @@ base
        ELSE base

\* lines 60-80
create(st, sch, tbl, c, n, title, content, user_id, item_id, fail) ==
    LET item == create_item(st, now_iso(c), create_id(item_id, n),
                            title, content, user_id)
    IN  IF create_missing_sort_key(st, user_id)
        THEN Raise("StorageError", "missing_sort_key", "none", tbl)
        ELSE IF fail \/ ~ValidItem(sch, item)
        THEN Raise("StorageError", "backend", "fail", tbl)
        ELSE Return("item", {item}, put_item(sch, tbl, item))

\* -------------------------------------------------------- DynamoNotes.get
\* lines 82-93
get(st, sch, tbl, item_id, user_id, fail) ==
    LET key == make_key(st, item_id, user_id)
    IN  IF key_missing_sort_key(st, user_id)
        THEN Raise("StorageError", "missing_sort_key", "none", tbl)
        ELSE IF fail \/ ~ValidKey(sch, key)
        THEN Raise("StorageError", "backend", "fail", tbl)
        ELSE IF get_item(tbl, key) = {}
        THEN Return("absent", {}, tbl)
        ELSE Return("item", get_item(tbl, key), tbl)

\* ------------------------------------------------------- DynamoNotes.list
\* Mutant of list_filtered: "user_id is not None" in place of "user_id".
list_filtered_not_none(st, user_id) ==
    user_id # None /\ Truthy(st.sort_key_name)

\* line 97
list_filtered(st, user_id) == Truthy(user_id) /\ Truthy(st.sort_key_name)

\* lines 95-105
list(st, sch, tbl, user_id, fail) ==
    IF fail
    THEN Raise("StorageError", "backend", "fail", tbl)
    ELSE IF list_filtered(st, user_id)
    THEN Return("items", scan_filter(tbl, st.sort_key_name, user_id), tbl)
    ELSE Return("items", scan(tbl), tbl)

\* ----------------------------------------------------- DynamoNotes.update
\* line 108
update_no_fields(title, content) == title = None /\ content = None

\* Mutant of update_values: both fields assigned whether supplied or not.
update_values_all(ts, title, content) ==
    [updated_at |-> ts, title |-> title, content |-> content]

\* lines 110-117: the values the SET expression assigns.
update_values(ts, title, content) ==
    [updated_at |-> ts]
        @@ (IF title # None THEN [title |-> title] ELSE Empty)
        @@ (IF content # None THEN [content |-> content] ELSE Empty)

\* Mutant of update: the sort-key check made before the no-fields check.
update_key_first(st, sch, tbl, c, item_id, title, content, user_id, fail) ==
    LET key == make_key(st, item_id, user_id)
        vals == update_values(now_iso(c), title, content)
    IN  IF key_missing_sort_key(st, user_id)
        THEN Raise("StorageError", "missing_sort_key", "none", tbl)
        ELSE IF update_no_fields(title, content)
        THEN Raise("ValueError", "no_fields", "none", tbl)
        ELSE IF fail \/ ~ValidKey(sch, key)
        THEN Raise("StorageError", "backend", "fail", tbl)
        ELSE Return("item", {update_item_new(tbl, key, vals)},
                    update_item(tbl, key, vals))

\* lines 107-133
update(st, sch, tbl, c, item_id, title, content, user_id, fail) ==
    LET key == make_key(st, item_id, user_id)
        vals == update_values(now_iso(c), title, content)
    IN  IF update_no_fields(title, content)
        THEN Raise("ValueError", "no_fields", "none", tbl)
        ELSE IF key_missing_sort_key(st, user_id)
        THEN Raise("StorageError", "missing_sort_key", "none", tbl)
        ELSE IF fail \/ ~ValidKey(sch, key)
        THEN Raise("StorageError", "backend", "fail", tbl)
        ELSE Return("item", {update_item_new(tbl, key, vals)},
                    update_item(tbl, key, vals))

\* ----------------------------------------------------- DynamoNotes.delete
\* Mutant of delete: the request carries attribute_exists, so the table
\* rejects it when the key addresses nothing.
delete_existing_only(st, sch, tbl, item_id, user_id, fail) ==
    LET key == make_key(st, item_id, user_id)
    IN  IF key_missing_sort_key(st, user_id)
        THEN Raise("StorageError", "missing_sort_key", "none", tbl)
        ELSE IF fail \/ ~ValidKey(sch, key) \/ Matching(tbl, key) = {}
        THEN Raise("StorageError", "backend", "fail", tbl)
        ELSE Return("none", {}, delete_item(tbl, key))

\* lines 135-145
delete(st, sch, tbl, item_id, user_id, fail) ==
    LET key == make_key(st, item_id, user_id)
    IN  IF key_missing_sort_key(st, user_id)
        THEN Raise("StorageError", "missing_sort_key", "none", tbl)
        ELSE IF fail \/ ~ValidKey(sch, key)
        THEN Raise("StorageError", "backend", "fail", tbl)
        ELSE Return("none", {}, delete_item(tbl, key))

\* ------------------------------------------------------------------ main
\* Mutant of main_exit: "except Exception" placed before "except StorageError".
main_exit_generic_first(op, out) ==
    IF out.exc # "none" THEN 4
    ELSE IF op = "get" /\ out.kind = "absent" THEN 2
    ELSE 0

\* lines 340-348 and cmd_get's sys.exit(2) (lines 171-173): the process exit
\* status when the call is run as a command.
main_exit(op, out) ==
    IF out.exc = "StorageError" THEN 3
    ELSE IF out.exc # "none" THEN 4
    ELSE IF op = "get" /\ out.kind = "absent" THEN 2
    ELSE 0

\* ---------------------------------------------------------------- the calls
UserArgs == Users \cup {None, ""}
ExplicitKeyNames == KeyNames \cup {None, ""}
ExplicitSortNames == SortNames \cup OtherSortNames \cup {None, ""}
Generated(n) == {UuidPool[i] : i \in 1..n}

\* The record of a call: which operation, what came back, whether its key
\* addressed an item before it ran, and the exit status main() gives it.
Call(op, out, existed) ==
    [op |-> op, exc |-> out.exc, why |-> out.why, kind |-> out.kind,
     val |-> out.val, remote |-> out.remote, existed |-> existed,
     status |-> main_exit(op, out)]

\* get_store (lines 148-155): the outcome of constructing the adapter.
init_outcome(st) ==
    IF st.built THEN [Return("none", {}, {}) EXCEPT !.remote = "none"]
    ELSE Raise("StorageError", "no_boto3", "none", {})

InitCall(st) == Call("init", init_outcome(st), FALSE)

Existed(tbl, key) == Matching(tbl, key) # {}

\* The state once get_store has built the adapter from what it was given.
Started(given) ==
    /\ boto3 \in BOOLEAN
    /\ table = {}
    /\ clock = 0
    /\ uuids = 0
    /\ explicit \in given
    /\ store = dynamo_init(boto3, explicit.key_name, explicit.sort_key_name,
                           schema, explicit.disc)
    /\ last = InitCall(store)

\* No key names given, discovery succeeds: the adapter fits the table.
Init ==
    /\ schema \in [hash : {"id"}, range : SortNames \cup {None}]
    /\ Started([key_name : {None}, sort_key_name : {None}, disc : {"ok"}])

\* Any key names given, over any table, discovery succeeding or not.
InitAny ==
    /\ schema \in Schemas
    /\ Started([key_name : ExplicitKeyNames,
                sort_key_name : ExplicitSortNames, disc : {"ok", "fail"}])

\* get_store: a command builds a fresh adapter.
Construct ==
    /\ explicit' \in [key_name : ExplicitKeyNames,
                      sort_key_name : ExplicitSortNames, disc : {"ok", "fail"}]
    /\ store' = dynamo_init(boto3, explicit'.key_name, explicit'.sort_key_name,
                            schema, explicit'.disc)
    /\ last' = InitCall(store')
    /\ UNCHANGED <<boto3, schema, table, clock, uuids>>

\* Time passes.
Tick ==
    /\ clock < MaxClock
    /\ clock' = clock + 1
    /\ UNCHANGED <<boto3, schema, table, uuids, store, explicit, last>>

Create ==
    /\ store.built
    /\ \E title \in Titles, content \in Contents, user_id \in UserArgs,
          item_id \in Ids \cup {None, ""}, fail \in BOOLEAN :
        LET out == create(store, schema, table, clock, uuids, title, content,
                          user_id, item_id, fail)
            key == make_key(store, create_id(item_id, uuids), user_id)
        IN  /\ Truthy(item_id) \/ uuids < MaxUuid
            /\ Cardinality(out.table) <= MaxItems
            /\ table' = out.table
            /\ uuids' = IF Truthy(item_id) THEN uuids ELSE uuids + 1
            /\ last' = Call("create", out, Existed(table, key))
            /\ UNCHANGED <<boto3, schema, clock, store, explicit>>

Get ==
    /\ store.built
    /\ \E item_id \in Ids \cup Generated(uuids), user_id \in UserArgs,
          fail \in BOOLEAN :
        LET out == get(store, schema, table, item_id, user_id, fail)
        IN  /\ last' = Call("get", out, Existed(table, make_key(store, item_id, user_id)))
            /\ UNCHANGED <<boto3, schema, table, clock, uuids, store, explicit>>

List ==
    /\ store.built
    /\ \E user_id \in UserArgs, fail \in BOOLEAN :
        LET out == list(store, schema, table, user_id, fail)
        IN  /\ last' = Call("list", out, FALSE)
            /\ UNCHANGED <<boto3, schema, table, clock, uuids, store, explicit>>

Update ==
    /\ store.built
    /\ \E item_id \in Ids \cup Generated(uuids), user_id \in UserArgs,
          title \in Titles \cup {None}, content \in Contents \cup {None},
          fail \in BOOLEAN :
        LET out == update(store, schema, table, clock, item_id, title, content,
                          user_id, fail)
        IN  /\ Cardinality(out.table) <= MaxItems
            /\ table' = out.table
            /\ last' = Call("update", out, Existed(table, make_key(store, item_id, user_id)))
            /\ UNCHANGED <<boto3, schema, clock, uuids, store, explicit>>

Delete ==
    /\ store.built
    /\ \E item_id \in Ids \cup Generated(uuids), user_id \in UserArgs,
          fail \in BOOLEAN :
        LET out == delete(store, schema, table, item_id, user_id, fail)
        IN  /\ table' = out.table
            /\ last' = Call("delete", out, Existed(table, make_key(store, item_id, user_id)))
            /\ UNCHANGED <<boto3, schema, clock, uuids, store, explicit>>

\* One adapter serving a sequence of calls (the web UI, or commands run
\* with the same options).
Next == Tick \/ Create \/ Get \/ List \/ Update \/ Delete

Spec == Init /\ [][Next]_vars

\* Adapters built again and again over the table as the calls leave it.
NextInit == Construct

SpecInit == InitAny /\ [][NextInit]_vars

\* ================================================================ properties
\* The arguments a caller can pass in the current state.
IdArgs == Ids \cup Generated(uuids)
NewIdArgs == Ids \cup {None, ""}
HasSortKey == Truthy(store.sort_key_name)
SortValue(item) == IF HasSortKey THEN item[store.sort_key_name] ELSE None
NoteAttrs == {store.key_name, "title", "content", "created_at", "updated_at"}
NoneIfFalsy(name) == IF Truthy(name) THEN name ELSE None

\* C1: create followed by get with the returned id (and the same sort-key
\* value) returns an item with the title and content passed to create and
\* the created_at / updated_at of the item create returned, which are equal.
C1_CreateThenGet ==
    store.built =>
    \A title \in Titles, content \in Contents, user_id \in UserArgs,
       item_id \in NewIdArgs :
        LET c == create(store, schema, table, clock, uuids, title, content,
                        user_id, item_id, FALSE)
        IN  c.exc = "none" =>
            \A item \in c.val :
                LET g == get(store, schema, c.table, item[store.key_name],
                             user_id, FALSE)
                IN  /\ g.exc = "none" /\ g.kind = "item" /\ g.val # {}
                    /\ item.created_at = item.updated_at
                    /\ \A got \in g.val :
                        /\ got.title = title
                        /\ got.content = content
                        /\ got.created_at = item.created_at
                        /\ got.updated_at = item.updated_at

\* A create has just returned, and get on the returned key gives that item.
C1_Witness ==
    /\ last.op = "create" /\ last.exc = "none"
    /\ \E item \in last.val :
        get(store, schema, table, item[store.key_name], SortValue(item),
            FALSE).val = {item}

\* C2: create twice with the same explicit id (and sort-key value) leaves
\* exactly one item with that id in list filtered to that key, and it is the
\* item the second call built: the second title and content, nothing kept
\* from the first.
C2_CreateTwiceOverwrites ==
    store.built =>
    \A t1 \in Titles, t2 \in Titles, c1 \in Contents, c2 \in Contents,
       user_id \in UserArgs, item_id \in Ids, later \in clock..MaxClock :
        LET a == create(store, schema, table, clock, uuids, t1, c1,
                        user_id, item_id, FALSE)
            b == create(store, schema, a.table, later, uuids, t2, c2,
                        user_id, item_id, FALSE)
            l == list(store, schema, b.table, user_id, FALSE)
            same == {i \in l.val : i[store.key_name] = item_id}
        IN  a.exc = "none" =>
            /\ b.exc = "none" /\ l.exc = "none"
            /\ Cardinality(same) = 1
            /\ same = b.val
            /\ \A i \in same : i.title = t2 /\ i.content = c2

\* A create has just replaced an item that was there, and list shows one.
C2_Witness ==
    /\ last.op = "create" /\ last.exc = "none" /\ last.existed
    /\ \E item \in last.val :
        {i \in list(store, schema, table, SortValue(item), FALSE).val :
            i[store.key_name] = item[store.key_name]} = {item}

\* C3: a successful update of an existing item changes the supplied fields
\* and updated_at and nothing else: every other attribute (id, sort-key
\* value, created_at, the field not supplied) keeps its value, updated_at
\* does not go back, the rest of the table is untouched, and the item
\* returned is the item stored.
C3_UpdateChangesOnlySupplied ==
    store.built =>
    \A item_id \in IdArgs, user_id \in UserArgs, title \in Titles \cup {None},
       content \in Contents \cup {None} :
        LET key == make_key(store, item_id, user_id)
            u == update(store, schema, table, clock, item_id, title, content,
                        user_id, FALSE)
            given == {f \in {"title", "content"} :
                        (f = "title" /\ title # None)
                        \/ (f = "content" /\ content # None)}
        IN  (u.exc = "none" /\ Matching(table, key) # {}) =>
            \A old \in Matching(table, key) :
                /\ Cardinality(u.val) = 1
                /\ u.table = (table \ {old}) \cup u.val
                /\ \A new \in u.val :
                    /\ DOMAIN new = DOMAIN old \cup given
                    /\ \A a \in DOMAIN old \ (given \cup {"updated_at"}) :
                            new[a] = old[a]
                    /\ title # None => new.title = title
                    /\ content # None => new.content = content
                    /\ new.updated_at >= old.updated_at

\* An update of a note created earlier has just returned it, updated later.
C3_Witness ==
    /\ last.op = "update" /\ last.exc = "none" /\ last.existed
    /\ \E i \in last.val :
        /\ NoteAttrs \subseteq DOMAIN i
        /\ i.updated_at > i.created_at

\* C4: update with neither title nor content raises ValueError (the
\* InvalidArgument kind) without sending anything to the table and without
\* changing it, whatever the schema, the sort-key value or the backend.
C4_UpdateNoFields ==
    store.built =>
    \A item_id \in IdArgs, user_id \in UserArgs, fail \in BOOLEAN :
        LET u == update(store, schema, table, clock, item_id, None, None,
                        user_id, fail)
        IN  /\ u.exc = "ValueError" /\ u.why = "no_fields"
            /\ u.remote = "none"
            /\ u.table = table

\* An update on a sort-key table has just been refused for having no fields.
C4_Witness ==
    /\ last.op = "update" /\ last.exc = "ValueError" /\ last.remote = "none"
    /\ HasSortKey /\ table # {}

\* C5: on a table with a sort key, create, get, update (with a field) and
\* delete raise the missing-sort-key error, before any request and leaving
\* the table alone, when no sort-key value is supplied; they succeed when a
\* value is supplied; and the four agree on which user_id counts as none.
C5_MissingSortKeySameRule ==
    (store.built /\ HasSortKey) =>
    \A item_id \in IdArgs, user_id \in UserArgs, title \in Titles,
       content \in Contents :
        LET c == create(store, schema, table, clock, uuids, title, content,
                        user_id, item_id, FALSE)
            g == get(store, schema, table, item_id, user_id, FALSE)
            u == update(store, schema, table, clock, item_id, title, None,
                        user_id, FALSE)
            d == delete(store, schema, table, item_id, user_id, FALSE)
            refused(o) == /\ o.exc = "StorageError"
                          /\ o.why = "missing_sort_key"
                          /\ o.remote = "none"
                          /\ o.table = table
        IN  /\ user_id = None =>
                refused(c) /\ refused(g) /\ refused(u) /\ refused(d)
            /\ Truthy(user_id) =>
                /\ c.exc = "none" /\ g.exc = "none"
                /\ u.exc = "none" /\ d.exc = "none"
            /\ refused(c) <=> refused(g)
            /\ refused(c) <=> refused(u)
            /\ refused(c) <=> refused(d)

\* C6: delete is idempotent: deleting a key that is not in the table (never
\* created, or just deleted) succeeds and changes nothing, and get on that
\* key then returns absent, not an error.
C6_DeleteIdempotent ==
    store.built =>
    \A item_id \in IdArgs, user_id \in UserArgs :
        LET d1 == delete(store, schema, table, item_id, user_id, FALSE)
            d2 == delete(store, schema, d1.table, item_id, user_id, FALSE)
            g == get(store, schema, d2.table, item_id, user_id, FALSE)
            key == make_key(store, item_id, user_id)
        IN  d1.exc = "none" =>
            /\ d1.table = table \ Matching(table, key)
            /\ d2.exc = "none"
            /\ d2.table = d1.table
            /\ g.exc = "none" /\ g.kind = "absent"

\* A delete of a key that was not there has just succeeded, other items
\* staying in the table, and get on one more absent key reports absence.
C6_Witness ==
    /\ last.op = "delete" /\ last.exc = "none" /\ ~last.existed
    /\ table # {}
    /\ \E item_id \in IdArgs, user_id \in UserArgs :
        get(store, schema, table, item_id, user_id, FALSE).kind = "absent"

\* C7 as claimed: whenever a sort-key value is supplied (anything but None)
\* on a table with a sort key, list returns exactly the items with that
\* sort-key value; otherwise every item; the table is never changed.
C7_ListSuppliedFilter ==
    store.built =>
    \A user_id \in UserArgs, fail \in BOOLEAN :
        LET l == list(store, schema, table, user_id, fail)
        IN  /\ l.table = table
            /\ l.exc = "none" =>
                l.val = IF user_id # None /\ HasSortKey
                        THEN {i \in table : SortValue(i) = user_id}
                        ELSE table

\* C7 amended: the filter applies when the value supplied is a non-empty
\* string and the table has a sort key; with None or "", or without a sort
\* key, list returns every item; the table is never changed.
C7_ListNonEmptyFilter ==
    store.built =>
    \A user_id \in UserArgs, fail \in BOOLEAN :
        LET l == list(store, schema, table, user_id, fail)
        IN  /\ l.table = table
            /\ l.exc = "none" =>
                l.val = IF Truthy(user_id) /\ HasSortKey
                        THEN {i \in table : SortValue(i) = user_id}
                        ELSE table

\* A list has just returned some of the items and left others out.
C7_Witness ==
    /\ last.op = "list" /\ last.exc = "none"
    /\ last.val # {} /\ last.val # table

\* The failure kind of the error taxonomy a call ended with.
FailureKind(call) ==
    CASE call.why = "no_fields" -> "InvalidArgument"
      [] call.why = "missing_sort_key" -> "MissingSortKey"
      [] call.why \in {"backend", "no_boto3"} -> "StorageError"
      [] OTHER -> "none"

C9_ResolutionChain ==
    boto3 =>
    /\ store.built
    /\ store.key_name =
        IF Truthy(explicit.key_name) THEN explicit.key_name
        ELSE IF explicit.disc = "ok" THEN schema.hash
        ELSE "id"
    /\ NoneIfFalsy(store.sort_key_name) =
        IF Truthy(explicit.sort_key_name) THEN explicit.sort_key_name
        ELSE IF explicit.disc = "ok" THEN schema.range
        ELSE None

\* C10: update and delete never put an item under a key that had none, so
\* every item in the table has id, title, content, created_at, updated_at.
C10_OnlyCreateAdds ==
    [][/\ last'.op \in {"update", "delete"} =>
            \A i \in table' : \E j \in table : KeyOf(schema, j) = KeyOf(schema, i)
       /\ \A i \in table' : NoteAttrs \subseteq DOMAIN i]_vars

====
